---- MODULE Spec2Model ----
(***************************************************************************)
(* Model of chess-bot.py: a Telegram bot that polls the Lichess            *)
(* current-game endpoint for a list of monitored players and relays a      *)
(* notification to one registered chat.                                    *)
(*                                                                         *)
(* The bot runs on one asyncio event loop.  The repeating job              *)
(* (verificar_partidas) and the command handlers are coroutines: each runs *)
(* without interruption from one await to the next, so every action below  *)
(* is the code between two awaits.  Updates are dispatched one at a time   *)
(* (a handler finishes before the next command is handled), while the job  *)
(* runs as a task of its own and interleaves with the handlers at awaits.  *)
(***************************************************************************)
EXTENDS Integers, Sequences, FiniteSets, TLC

\* ---------------------------------------------------------------- bounds

\* Scheduled cycles started in one run of the model.
MaxCycles == 2
\* Commands handled in one run of the model.
MaxCmds == 2

\* ------------------------------------------------------------ value sets

\* Python's None, and a key that a JSON object does not carry.
None == "None"
Absent == "<absent>"

\* Chat identifiers /start may come from.
ChatIds == {"chat101", "chat202"}

\* Remote game identifiers ("" is a present but falsy id).
GameIds == {"g1", "g2"}

\* First argument of /adicionargm and /removergm, as typed.
PlayerArgs == {"magnuscarlsen", "Hikaru", "BOB"}

\* The `speed` and `players.white.user.name` values a payload may carry.
PayloadSpeeds == {Absent, "Blitz"}
PayloadWhites == {Absent, "Hikaru"}

Range(s) == {s[i] : i \in DOMAIN s}

\* str.lower() on the strings of the model.
lower(s) ==
  CASE s = "Hikaru" -> "hikaru"
    [] s = "BOB"    -> "bob"
    [] s = "Blitz"  -> "blitz"
    [] s = "TODOS"  -> "todos"
    [] OTHER        -> s

\* Python truthiness of a chat id / game id read with dict.get.
Falsy(x) == x \in {None, Absent, ""}

\* ------------------------------------------------------------- responses

\* What `await client.get(...)` produces: an exception, a non-200 status, a
\* 200 whose body is not JSON, or a 200 with a JSON game object.  Of a game
\* object the model keeps what the code reads: the id, the opponent (the key
\* is absent, its value is an object, or its value is something without
\* .get: a string, null, a list), the speed (absent, a string, or null) and
\* the white player's name.
Dict == "dict"
NotDict == "not-dict"

NoPayload == [id |-> Absent, opponent |-> Absent, speed |-> Absent, white |-> Absent]

\* No id, a falsy id, no opponent key: the body is skipped.
MalformedPayloads ==
  {[id |-> Absent, opponent |-> Dict,   speed |-> "Blitz", white |-> "Hikaru"],
   [id |-> "",     opponent |-> Dict,   speed |-> "Blitz", white |-> "Hikaru"],
   [id |-> "g1",   opponent |-> Absent, speed |-> "Blitz", white |-> "Hikaru"]}

\* An id and an opponent key, with a value the body cannot use: an opponent
\* that is no object, a null speed.
UnusablePayloads ==
  {[id |-> "g1", opponent |-> NotDict, speed |-> "Blitz", white |-> "Hikaru"],
   [id |-> "g1", opponent |-> Dict,    speed |-> None,    white |-> "Hikaru"]}

\* An id, an opponent object and a speed the body can use: the games that
\* name the white player, one of them a bullet game, and one that does not.
GamePayloads ==
  [id : GameIds, opponent : {Dict}, speed : PayloadSpeeds, white : PayloadWhites \ {Absent}]
    \cup {[id |-> "g2", opponent |-> Dict, speed |-> "bullet", white |-> "Hikaru"],
          [id |-> "g1", opponent |-> Dict, speed |-> "Blitz",  white |-> Absent]}

Payloads == MalformedPayloads \cup UnusablePayloads \cup GamePayloads

Responses ==
  {[kind |-> k, partida |-> NoPayload] : k \in {"error", "404", "200-not-json"}}
    \cup {[kind |-> "200", partida |-> p] : p \in Payloads}

\* --------------------------------------------------------------- state

VARIABLES
  dados,        \* the in-memory configuration (global `dados`)
  arquivo,      \* the content of data_bot.json
  job,          \* the frame of the running verificar_partidas coroutine
  cmd,          \* the frame of the command handler being run
  resposta,     \* the last reply_text / reply_markdown of a handler
  manual,       \* what the current (or last) /verificar has done
  enviadas,     \* per game id, the sends of the job that returned successfully
  consultados,  \* the players the current (or last) cycle has fetched, in order
  interferido,  \* a command ran while the running cycle was suspended
  ultimo,       \* how the loop body of the running cycle last ended
  chat_inicio,  \* the chat_id registered when the cycle / the check started,
                \* and (envio) when the message the job is sending was handed over
  ciclos,       \* cycles started
  comandos      \* commands handled

vars ==
  <<dados, arquivo, job, cmd, resposta, manual, enviadas, consultados, interferido,
    ultimo, chat_inicio, ciclos, comandos>>

\* ---------------------------------------------------------- persistence

\* list(set): the elements of a set in some order.
ListsOf(S) ==
  {l \in [1..Cardinality(S) -> S] : \A i, j \in 1..Cardinality(S) : i # j => l[i] # l[j]}

\* Mutant: the recorded ids are left out of the file.
salvar_dados_sem_notificadas(d) ==
  {[gms_a_monitorar      |-> d.gms_a_monitorar,
    partidas_notificadas |-> <<>>,
    ritmos_permitidos    |-> d.ritmos_permitidos,
    chat_id              |-> d.chat_id]}

\* The files salvar_dados may write for configuration d.
salvar_dados(d) ==
  {[gms_a_monitorar      |-> d.gms_a_monitorar,
    partidas_notificadas |-> l,
    ritmos_permitidos    |-> d.ritmos_permitidos,
    chat_id              |-> d.chat_id] : l \in ListsOf(d.partidas_notificadas)}

\* The configuration carregar_dados creates when no file exists.
dados_padrao ==
  [gms_a_monitorar      |-> <<"magnuscarlsen", "hikaru">>,
   partidas_notificadas |-> {},
   ritmos_permitidos    |-> <<>>,
   chat_id              |-> None]

\* The configuration carregar_dados reads from an existing file.
carregar_dados(f) ==
  [gms_a_monitorar      |-> f.gms_a_monitorar,
   partidas_notificadas |-> Range(f.partidas_notificadas),
   ritmos_permitidos    |-> f.ritmos_permitidos,
   chat_id              |-> f.chat_id]

\* ------------------------------------------------------- coroutine frames

NoMsg == [id |-> Absent, ritmo |-> Absent, cor |-> Absent]

JobIdle ==
  [pc |-> "idle", chat_id |-> None, it |-> 0, gm_username |-> None, msg |-> NoMsg,
   destino |-> None]

CmdIdle ==
  [pc |-> "idle", chat_id |-> None, it |-> 0, gm_username |-> None,
   jogos_encontrados |-> 0, msg |-> NoMsg, destino |-> None, conexao |-> FALSE]

\* What the last /verificar did: it ran to its end, it replied that nobody is
\* playing, a player had an active game (a 200 with id and opponent), a game
\* message was handed to send_message.
ManualNovo == [fim |-> FALSE, ninguem |-> FALSE, ativo |-> FALSE, tentou |-> FALSE]

\* The data files the bot may find when it starts: files an earlier run of
\* the bot wrote after /start and /filtroritmo.
ArquivosIniciais ==
  UNION {salvar_dados([dados_padrao EXCEPT !.chat_id = c, !.ritmos_permitidos = f]) :
           c \in {None, "chat101"}, f \in {<<>>, <<"blitz">>}}

\* run_telegram_bot: carregar_dados() reads the file, or creates it from the
\* defaults when there is none; the job and the handlers are then registered.
Init ==
  /\ \/ /\ dados = dados_padrao
        /\ arquivo \in salvar_dados(dados_padrao)
     \/ /\ arquivo \in ArquivosIniciais
        /\ dados = carregar_dados(arquivo)
  /\ job = JobIdle
  /\ cmd = CmdIdle
  /\ resposta = None
  /\ manual = ManualNovo
  /\ enviadas = [g \in GameIds |-> 0]
  /\ consultados = <<>>
  /\ interferido = FALSE
  /\ ultimo = None
  /\ chat_inicio = [job |-> None, cmd |-> None, envio |-> None]
  /\ ciclos = 0
  /\ comandos = 0

\* ------------------------------------------------- the scheduled cycle

\* Mutant: the job does not test the chat id.
chat_unset_nunca(c) == FALSE

\* `if not chat_id` (and the same test of verificar_agora).
chat_unset(c) == Falsy(c)

\* Mutant: only the id is tested.
payload_malformed_so_id(p) == Falsy(p.id)

\* `if not id_partida or 'opponent' not in partida: continue`
payload_malformed(p) == Falsy(p.id) \/ p.opponent = Absent

\* partida.get('speed', ...) is null: .lower() and .capitalize() raise
\* AttributeError.
speed_sem_metodos(p) == p.speed = None

\* partida['opponent'] is no object: .get raises AttributeError.
opponent_sem_get(p) == p.opponent = NotDict

\* partida.get('speed', '').lower()
ritmo_partida(p) == lower(IF p.speed = Absent THEN "" ELSE p.speed)

\* Mutant: an empty filter blocks every speed.
ritmo_bloqueado_vazio(ritmos, ritmo) == ritmo \notin Range(ritmos)

\* `if ritmos_permitidos and ritmo_partida not in ritmos_permitidos: continue`
ritmo_bloqueado(ritmos, ritmo) == ritmos # <<>> /\ ritmo \notin Range(ritmos)

\* Mutant: the dedup set is not consulted.
ja_notificada_nunca(id, notificadas) == FALSE

\* `if id_partida in dados.get('partidas_notificadas', set()): continue`
ja_notificada(id, notificadas) == id \in notificadas

\* "Brancas" if partida['players']['white']['user']['name'].lower() == gm_username
cor(white, gm) == IF lower(white) = gm THEN "Brancas" ELSE "Negras"

\* Mutant: the id is not recorded.
marcar_notificada_esquece(notificadas, id) == notificadas

\* Mutant: the new id takes the place of the recorded ones.
marcar_notificada_substitui(notificadas, id) == {id}

\* dados['partidas_notificadas'].add(id_partida)
marcar_notificada(notificadas, id) == notificadas \cup {id}

\* What the body of the job's loop does with a response, up to its next await:
\* an exception (caught by the except clause: the request failed, the body is
\* not JSON, line 80, 84 or 85 raised), a `continue` or the end of the body
\* without a send, or a message handed to send_message.
verificar_partidas_corpo(r, gm, d) ==
  IF r.kind \in {"error", "200-not-json"} THEN [acao |-> "except", msg |-> NoMsg]
  ELSE IF r.kind # "200" THEN [acao |-> "end", msg |-> NoMsg]
  ELSE IF payload_malformed(r.partida) THEN [acao |-> "continue", msg |-> NoMsg]
  ELSE IF speed_sem_metodos(r.partida) THEN [acao |-> "except", msg |-> NoMsg]
  ELSE IF ritmo_bloqueado(d.ritmos_permitidos, ritmo_partida(r.partida))
    THEN [acao |-> "continue", msg |-> NoMsg]
  ELSE IF ja_notificada(r.partida.id, d.partidas_notificadas)
    THEN [acao |-> "repeated", msg |-> NoMsg]
  ELSE IF opponent_sem_get(r.partida) THEN [acao |-> "except", msg |-> NoMsg]
  ELSE IF r.partida.white = Absent THEN [acao |-> "except", msg |-> NoMsg]
  ELSE [acao |-> "send",
        msg  |-> [id    |-> r.partida.id,
                  ritmo |-> ritmo_partida(r.partida),
                  cor   |-> cor(r.partida.white, gm)]]

\* Mutant: the chat id is read again when the message is sent.
destinatario_atual(frame, d) == d.chat_id

\* send_message(chat_id=chat_id, ...): the local read at the top of the
\* coroutine (lines 65 and 126).
destinatario(frame, d) == frame.chat_id

\* The next step of `for gm_username in dados.get('gms_a_monitorar', [])`: the
\* list iterator reads the live list at its index; the body then runs up to
\* `await client.get(...)`.  When the list is exhausted the job returns.
job_next(j, d) ==
  IF j.it < Len(d.gms_a_monitorar)
    THEN [j EXCEPT !.pc = "get", !.it = j.it + 1,
                   !.gm_username = d.gms_a_monitorar[j.it + 1], !.msg = NoMsg,
                   !.destino = None]
    ELSE JobIdle

\* Mutant: the try/except wraps the loop, so an exception ends the cycle.
job_apos_excecao_aborta(j, d) == JobIdle

\* An exception in the loop body is caught inside the loop: the loop goes on.
job_apos_excecao(j, d) == job_next(j, d)

\* The players fetched so far, after the job's frame became j.
consultados_apos(j) ==
  IF j.pc = "get" THEN Append(consultados, j.gm_username) ELSE consultados

\* How the loop body ended, kept while the cycle runs: with an exception
\* caught ("except"), with the dedup `continue` ("repeated"), with another
\* `continue` or a non-200 status ("skip"), after a successful send ("sent").
ultimo_apos(j, fim) ==
  IF j.pc = "idle" \/ j.pc = "send" THEN None
  ELSE IF fim \in {"continue", "end"} THEN "skip" ELSE fim

\* verificar_partidas from its call to its first await (or its return), as
\* cycle number n.
verificar_partidas_inicio(n) ==
  /\ job.pc = "idle"
  /\ ciclos' = n
  /\ interferido' = FALSE
  /\ IF chat_unset(dados.chat_id)
       THEN /\ job' = JobIdle
            /\ consultados' = <<>>
       ELSE /\ job' = job_next([JobIdle EXCEPT !.chat_id = dados.chat_id], dados)
            /\ consultados' = IF job'.pc = "get" THEN <<job'.gm_username>> ELSE <<>>
  /\ ultimo' = None
  /\ chat_inicio' = [chat_inicio EXCEPT !.job = IF job'.pc = "idle" THEN None
                                                 ELSE dados.chat_id,
                                         !.envio = None]
  /\ UNCHANGED <<dados, arquivo, cmd, resposta, manual, enviadas, comandos>>

\* The timer fires (the cycles are counted up to MaxCycles).
verificar_partidas_start ==
  /\ ciclos < MaxCycles
  /\ verificar_partidas_inicio(ciclos + 1)

\* The repeating timer of run_repeating fires, without end: the cycles after
\* the MaxCycles-th are not counted.
verificar_partidas_repete ==
  verificar_partidas_inicio(IF ciclos < MaxCycles THEN ciclos + 1 ELSE ciclos)

\* `await client.get(...)` returns or raises.
verificar_partidas_get(r) ==
  /\ job.pc = "get"
  /\ LET c == verificar_partidas_corpo(r, job.gm_username, dados) IN
       /\ job' = CASE c.acao = "send"   -> [job EXCEPT !.pc = "send", !.msg = c.msg,
                                                        !.destino = destinatario(job, dados)]
                   [] c.acao = "except" -> job_apos_excecao(job, dados)
                   [] OTHER             -> job_next(job, dados)
       /\ ultimo' = ultimo_apos(job', c.acao)
  /\ consultados' = consultados_apos(job')
  /\ chat_inicio' = [chat_inicio EXCEPT !.job = IF job'.pc = "idle" THEN None ELSE @,
                                         !.envio = IF job'.pc = "send" THEN dados.chat_id
                                                   ELSE None]
  /\ interferido' = (interferido /\ job'.pc # "idle")
  /\ UNCHANGED <<dados, arquivo, cmd, resposta, manual, enviadas,
                 ciclos, comandos>>

\* Mutant: the id is recorded before the send is awaited, so a failed send
\* leaves it recorded.
verificar_partidas_send_marca_antes(ok) ==
  /\ job.pc = "send"
  /\ dados' = [dados EXCEPT !.partidas_notificadas = marcar_notificada(@, job.msg.id)]
  /\ arquivo' \in salvar_dados(dados')
  /\ enviadas' = IF ok THEN [enviadas EXCEPT ![job.msg.id] = @ + 1] ELSE enviadas
  /\ job' = IF ok THEN job_next(job, dados') ELSE job_apos_excecao(job, dados')
  /\ ultimo' = ultimo_apos(job', IF ok THEN "sent" ELSE "except")
  /\ consultados' = consultados_apos(job')
  /\ chat_inicio' = [chat_inicio EXCEPT !.job = IF job'.pc = "idle" THEN None ELSE @,
                                         !.envio = IF job'.pc = "send" THEN dados.chat_id
                                                   ELSE None]
  /\ interferido' = (interferido /\ job'.pc # "idle")
  /\ UNCHANGED <<cmd, resposta, manual, ciclos, comandos>>

\* `await context.bot.send_message(...)` returns (ok) or raises.
verificar_partidas_send(ok) ==
  /\ job.pc = "send"
  /\ IF ok
       THEN /\ dados' = [dados EXCEPT !.partidas_notificadas =
                                        marcar_notificada(@, job.msg.id)]
            /\ arquivo' \in salvar_dados(dados')
            /\ enviadas' = [enviadas EXCEPT ![job.msg.id] = @ + 1]
            /\ job' = job_next(job, dados')
       ELSE /\ UNCHANGED <<dados, arquivo, enviadas>>
            /\ job' = job_apos_excecao(job, dados)
  /\ ultimo' = ultimo_apos(job', IF ok THEN "sent" ELSE "except")
  /\ consultados' = consultados_apos(job')
  /\ chat_inicio' = [chat_inicio EXCEPT !.job = IF job'.pc = "idle" THEN None ELSE @,
                                         !.envio = IF job'.pc = "send" THEN dados.chat_id
                                                   ELSE None]
  /\ interferido' = (interferido /\ job'.pc # "idle")
  /\ UNCHANGED <<cmd, resposta, manual, ciclos, comandos>>

\* ------------------------------------------------------- the commands

\* A handler is started only when the previous one has finished.
comando_aceito ==
  /\ cmd.pc = "idle"
  /\ comandos < MaxCmds
  /\ comandos' = comandos + 1
  /\ interferido' = (interferido \/ job.pc # "idle")

\* context.args of /adicionargm and /removergm (only args[0] is read).
PlayerArgLists == {<<>>} \cup {<<a>> : a \in PlayerArgs}

\* context.args of /filtroritmo, as typed.
FilterArgLists ==
  {<<>>, <<"ver">>, <<"TODOS">>, <<"nonsense">>,
   <<"Blitz", "nonsense">>, <<"nonsense", "bullet">>, <<"bullet", "Blitz">>,
   <<"bullet", "ver">>, <<"ver", "bullet">>}

\* list.remove(x): the list without the first occurrence of x.
list_remove(l, x) ==
  LET i == CHOOSE k \in 1..Len(l) : l[k] = x /\ \A m \in 1..(k - 1) : l[m] # x
  IN  SubSeq(l, 1, i - 1) \o SubSeq(l, i + 1, Len(l))

\* Mutant: /start sets the chat id in memory and does not write the file.
start_sem_salvar(chat) ==
  /\ comando_aceito
  /\ dados' = [dados EXCEPT !.chat_id = chat]
  /\ arquivo' = arquivo
  /\ resposta' = "ola"
  /\ UNCHANGED <<job, cmd, manual, enviadas, consultados, ultimo,
                 chat_inicio, ciclos>>

\* /start
start(chat) ==
  /\ comando_aceito
  /\ dados' = [dados EXCEPT !.chat_id = chat]
  /\ arquivo' \in salvar_dados(dados')
  /\ resposta' = "ola"
  /\ UNCHANGED <<job, cmd, manual, enviadas, consultados, ultimo,
                 chat_inicio, ciclos>>

\* /ajuda
ajuda ==
  /\ comando_aceito
  /\ resposta' = "ajuda"
  /\ UNCHANGED <<dados, arquivo, job, cmd, manual, enviadas, consultados, ultimo,
                 chat_inicio, ciclos>>

\* /listar_gms
listar_gms ==
  /\ comando_aceito
  /\ resposta' = IF dados.gms_a_monitorar # <<>> THEN "lista" ELSE "lista vazia"
  /\ UNCHANGED <<dados, arquivo, job, cmd, manual, enviadas, consultados, ultimo,
                 chat_inicio, ciclos>>

\* Mutant: the argument is used as typed.
normalizar_como_digitado(arg) == arg

\* context.args[0].lower()
normalizar(arg) == lower(arg)

\* `if gm_username in dados.get('gms_a_monitorar', [])`
esta_na_lista(gm, gms) == gm \in Range(gms)

\* /adicionargm
adicionar_gm(args) ==
  /\ comando_aceito
  /\ IF args = <<>>
       THEN /\ resposta' = "uso"
            /\ UNCHANGED <<dados, arquivo>>
       ELSE LET gm_username == normalizar(args[1]) IN
            IF esta_na_lista(gm_username, dados.gms_a_monitorar)
              THEN /\ resposta' = "ja esta na lista"
                   /\ UNCHANGED <<dados, arquivo>>
              ELSE /\ dados' = [dados EXCEPT !.gms_a_monitorar = Append(@, gm_username)]
                   /\ arquivo' \in salvar_dados(dados')
                   /\ resposta' = "adicionado"
  /\ UNCHANGED <<job, cmd, manual, enviadas, consultados, ultimo, chat_inicio, ciclos>>

\* /removergm
remover_gm(args) ==
  /\ comando_aceito
  /\ IF args = <<>>
       THEN /\ resposta' = "uso"
            /\ UNCHANGED <<dados, arquivo>>
       ELSE LET gm_username == normalizar(args[1]) IN
            IF esta_na_lista(gm_username, dados.gms_a_monitorar)
              THEN /\ dados' = [dados EXCEPT !.gms_a_monitorar =
                                               list_remove(@, gm_username)]
                   /\ arquivo' \in salvar_dados(dados')
                   /\ resposta' = "removido"
              ELSE /\ resposta' = "nao encontrei"
                   /\ UNCHANGED <<dados, arquivo>>
  /\ UNCHANGED <<job, cmd, manual, enviadas, consultados, ultimo, chat_inicio, ciclos>>

ritmos_validos == <<"bullet", "blitz", "rapid", "classical">>

\* Mutant: the arguments are not tested against ritmos_validos.
novos_ritmos_sem_validar(args) == [i \in 1..Len(args) |-> lower(args[i])]

\* Mutant: the valid arguments are added to the filter already in place.
novos_ritmos_acumula(args) ==
  dados.ritmos_permitidos \o
    SelectSeq([i \in 1..Len(args) |-> lower(args[i])],
              LAMBDA r : r \in Range(ritmos_validos))

\* [r.lower() for r in context.args if r.lower() in ritmos_validos]
novos_ritmos(args) ==
  SelectSeq([i \in 1..Len(args) |-> lower(args[i])],
            LAMBDA r : r \in Range(ritmos_validos))

\* /filtroritmo
filtro_ritmo(args) ==
  /\ comando_aceito
  /\ IF args = <<>>
       THEN /\ resposta' = "uso"
            /\ UNCHANGED <<dados, arquivo>>
     ELSE IF lower(args[1]) = "ver"
       THEN /\ resposta' = IF dados.ritmos_permitidos # <<>>
                             THEN "filtro atual" ELSE "nenhum filtro"
            /\ UNCHANGED <<dados, arquivo>>
     ELSE IF lower(args[1]) = "todos"
       THEN /\ dados' = [dados EXCEPT !.ritmos_permitidos = <<>>]
            /\ arquivo' \in salvar_dados(dados')
            /\ resposta' = "filtro removido"
     ELSE IF novos_ritmos(args) # <<>>
       THEN /\ dados' = [dados EXCEPT !.ritmos_permitidos = novos_ritmos(args)]
            /\ arquivo' \in salvar_dados(dados')
            /\ resposta' = "filtro atualizado"
       ELSE /\ resposta' = "nenhum ritmo valido"
            /\ UNCHANGED <<dados, arquivo>>
  /\ UNCHANGED <<job, cmd, manual, enviadas, consultados, ultimo,
                 chat_inicio, ciclos>>

\* ------------------------------------------------- the manual check

\* str.capitalize() on the speed labels of the model.
capitalize(s) ==
  CASE s = "bullet"       -> "Bullet"
    [] s = "Blitz"        -> "Blitz"
    [] s = "Desconhecido" -> "Desconhecido"
    [] OTHER              -> s

\* What the body of /verificar's loop does with a response, up to its next
\* await: as for the job, with the 200 responses counted on the way.
verificar_agora_corpo(r, gm) ==
  IF r.kind = "error" THEN [acao |-> "except", achou |-> 0, msg |-> NoMsg]
  ELSE IF r.kind = "200-not-json" THEN [acao |-> "except", achou |-> 1, msg |-> NoMsg]
  ELSE IF r.kind # "200" THEN [acao |-> "continue", achou |-> 0, msg |-> NoMsg]
  ELSE IF payload_malformed(r.partida) THEN [acao |-> "continue", achou |-> 1, msg |-> NoMsg]
  ELSE IF opponent_sem_get(r.partida) THEN [acao |-> "except", achou |-> 1, msg |-> NoMsg]
  ELSE IF speed_sem_metodos(r.partida) THEN [acao |-> "except", achou |-> 1, msg |-> NoMsg]
  ELSE [acao  |-> "send",
        achou |-> 1,
        msg   |-> [id    |-> r.partida.id,
                   ritmo |-> capitalize(IF r.partida.speed = Absent
                                          THEN "Desconhecido" ELSE r.partida.speed),
                   cor   |-> Absent]]

\* The next step of /verificar's `for`: as job_next, up to `await client.get`.
cmd_next(c, d) ==
  IF c.it < Len(d.gms_a_monitorar)
    THEN [c EXCEPT !.pc = "get", !.it = c.it + 1,
                   !.gm_username = d.gms_a_monitorar[c.it + 1], !.msg = NoMsg,
                   !.destino = None]
    ELSE [c EXCEPT !.pc = "fim"]

\* `if jogos_encontrados == 0`
ninguem_jogando(c) == c.jogos_encontrados = 0

\* Whether the client's pool holds a connection after a request: it does when
\* the request was answered and the response kept the connection alive
\* (keep_alive); a response carrying `Connection: close` leaves the pool
\* empty, and so does a request that raised, whose connection is dropped.
conexao_mantida(r, keep_alive) == r.kind # "error" /\ keep_alive

\* The exit of `async with httpx.AsyncClient()` (line 131) suspends the
\* handler when the client's pool holds a connection at that moment.
fecha_suspenso(c) == c.conexao

\* After the `async with`: the final reply is given when no 200 was counted,
\* and the handler returns.
verificar_agora_retorna(c, m) ==
  /\ cmd' = CmdIdle
  /\ resposta' = IF ninguem_jogando(c) THEN "ninguem" ELSE resposta
  /\ manual' = [m EXCEPT !.fim = TRUE, !.ninguem = ninguem_jogando(c)]
  /\ chat_inicio' = [chat_inicio EXCEPT !.cmd = None]

\* The handler's frame c has been advanced: when the loop is over and the
\* client closes without suspending, the handler runs on to its return.
verificar_agora_segue(c, m) ==
  IF c.pc = "fim" /\ ~fecha_suspenso(c)
    THEN verificar_agora_retorna(c, m)
    ELSE /\ cmd' = c
         /\ resposta' = resposta
         /\ manual' = m
         /\ chat_inicio' = [chat_inicio EXCEPT !.cmd = c.chat_id]

\* /verificar: the first reply is awaited before anything is read.
verificar_agora_begin ==
  /\ comando_aceito
  /\ cmd' = [CmdIdle EXCEPT !.pc = "reply"]
  /\ resposta' = "verificando"
  /\ manual' = ManualNovo
  /\ UNCHANGED <<dados, arquivo, job, enviadas, consultados, ultimo,
                 chat_inicio, ciclos>>

\* The first reply has returned (ok): the chat id is read and the loop
\* starts; or it has raised, outside any try: the handler ends there.
verificar_agora_start(ok) ==
  /\ cmd.pc = "reply"
  /\ interferido' = (interferido \/ job.pc # "idle")
  /\ IF ~ok
       THEN /\ cmd' = CmdIdle
            /\ UNCHANGED <<resposta, manual, chat_inicio>>
     ELSE IF chat_unset(dados.chat_id)
       THEN /\ cmd' = CmdIdle
            /\ resposta' = "use /start"
            /\ manual' = manual
            /\ chat_inicio' = chat_inicio
       ELSE verificar_agora_segue(cmd_next([cmd EXCEPT !.chat_id = dados.chat_id], dados),
                                  manual)
  /\ UNCHANGED <<dados, arquivo, job, enviadas, consultados, ultimo, ciclos, comandos>>

\* `await client.get(...)` of /verificar returns or raises; keep_alive tells
\* whether an answered request left its connection open.
verificar_agora_get(r, keep_alive) ==
  /\ cmd.pc = "get"
  /\ interferido' = (interferido \/ job.pc # "idle")
  /\ LET c == verificar_agora_corpo(r, cmd.gm_username)
         f == [cmd EXCEPT !.jogos_encontrados = @ + c.achou,
                          !.conexao = conexao_mantida(r, keep_alive)]
         m == [manual EXCEPT !.ativo = @ \/ (r.kind = "200" /\ ~payload_malformed(r.partida)),
                             !.tentou = @ \/ c.acao = "send"]
     IN  IF c.acao = "send"
           THEN verificar_agora_segue([f EXCEPT !.pc = "send", !.msg = c.msg,
                                                !.destino = destinatario(f, dados)], m)
           ELSE verificar_agora_segue(cmd_next(f, dados), m)
  /\ UNCHANGED <<dados, arquivo, job, enviadas, consultados, ultimo, ciclos, comandos>>

\* Mutant: /verificar records the game it reported, as the job does.
verificar_agora_send_marca(ok) ==
  /\ cmd.pc = "send"
  /\ interferido' = (interferido \/ job.pc # "idle")
  /\ verificar_agora_segue(cmd_next(cmd, dados), manual)
  /\ IF ok
       THEN /\ dados' = [dados EXCEPT !.partidas_notificadas = @ \cup {cmd.msg.id}]
            /\ arquivo' \in salvar_dados(dados')
       ELSE UNCHANGED <<dados, arquivo>>
  /\ UNCHANGED <<job, enviadas, consultados, ultimo, ciclos, comandos>>

\* `await context.bot.send_message(...)` of /verificar returns or raises.
verificar_agora_send(ok) ==
  /\ cmd.pc = "send"
  /\ interferido' = (interferido \/ job.pc # "idle")
  /\ verificar_agora_segue(cmd_next(cmd, dados), manual)
  /\ UNCHANGED <<dados, arquivo, job, enviadas, consultados, ultimo, ciclos, comandos>>

\* The client has closed: `if jogos_encontrados == 0` and the final reply,
\* then the handler returns.
verificar_agora_fim ==
  /\ cmd.pc = "fim"
  /\ interferido' = (interferido \/ job.pc # "idle")
  /\ verificar_agora_retorna(cmd, manual)
  /\ UNCHANGED <<dados, arquivo, job, enviadas, consultados, ultimo, ciclos, comandos>>

\* ------------------------------------------------------ specification

Next ==
  \/ verificar_partidas_start
  \/ \E r \in Responses : verificar_partidas_get(r)
  \/ \E ok \in BOOLEAN : verificar_partidas_send(ok)
  \/ \E chat \in ChatIds : start(chat)
  \/ ajuda
  \/ listar_gms
  \/ \E args \in PlayerArgLists : adicionar_gm(args)
  \/ \E args \in PlayerArgLists : remover_gm(args)
  \/ \E args \in FilterArgLists : filtro_ritmo(args)
  \/ verificar_agora_begin
  \/ \E ok \in BOOLEAN : verificar_agora_start(ok)
  \/ \E r \in Responses, keep_alive \in BOOLEAN : verificar_agora_get(r, keep_alive)
  \/ \E ok \in BOOLEAN : verificar_agora_send(ok)
  \/ verificar_agora_fim

Spec == Init /\ [][Next]_vars

\* ------------------------------------- the job alone, under a fair timer

\* The game hikaru is playing for as long as the bot runs.
PartidaEmCurso ==
  [kind |-> "200",
   partida |-> [id |-> "g1", opponent |-> Dict, speed |-> "Blitz", white |-> "Hikaru"]]

\* What a fetch can return while hikaru plays that game: for hikaru the game
\* or a failure of the request, for another player anything but that game.
RespostasCom(gm) ==
  IF gm = "hikaru"
    THEN {PartidaEmCurso, [kind |-> "error", partida |-> NoPayload]}
    ELSE {r \in Responses : r.kind = "200" => r.partida.id # "g1"}

\* The bot was started with a chat registered.
InitComChat == Init /\ ~chat_unset(dados.chat_id)

\* The fetch for hikaru succeeds.
busca_com_sucesso ==
  /\ job.gm_username = "hikaru"
  /\ verificar_partidas_get(PartidaEmCurso)

\* The send of hikaru's game succeeds.
envio_com_sucesso ==
  /\ job.msg.id = "g1"
  /\ verificar_partidas_send(TRUE)

\* The arguments of /adicionargm and /removergm that leave hikaru alone.
ArgsDeOutros == {args \in PlayerArgLists : args = <<>> \/ lower(args[1]) # "hikaru"}

\* The job, and the commands that keep a chat registered, hikaru in the list
\* and the filter as it is.
NextJob ==
  \/ verificar_partidas_repete
  \/ \E r \in RespostasCom(job.gm_username) : verificar_partidas_get(r)
  \/ \E ok \in BOOLEAN : verificar_partidas_send(ok)
  \/ \E chat \in ChatIds : start(chat)
  \/ \E args \in ArgsDeOutros : adicionar_gm(args)
  \/ \E args \in ArgsDeOutros : remover_gm(args)

\* The timer keeps firing (run_repeating, interval=120), every await of the
\* job returns or raises (httpx timeout=10), and the fetch and the send that
\* can succeed again and again do succeed at some time.
SpecJob ==
  /\ InitComChat
  /\ [][NextJob]_vars
  /\ WF_vars(verificar_partidas_repete)
  /\ WF_vars(\E r \in RespostasCom(job.gm_username) : verificar_partidas_get(r))
  /\ WF_vars(\E ok \in BOOLEAN : verificar_partidas_send(ok))
  /\ SF_vars(busca_com_sucesso)
  /\ SF_vars(envio_com_sucesso)

\* ---------------------------------------------------------------- claims

\* The job's step that resumes it from an await (or starts it).
JobStep == job' # job \/ ciclos' # ciclos

\* C1: the scheduled cycle successfully sends at most one notification per
\* game id: a game id whose send succeeded is in partidas_notificadas, and
\* the job never has a message in flight for an id that is in it, whichever
\* player the fetch returned it for and in whichever cycle.
C1_UmaNotificacaoPorPartida ==
  /\ \A g \in GameIds : enviadas[g] <= 1
  /\ \A g \in GameIds : enviadas[g] = 1 => g \in dados.partidas_notificadas
  /\ job.pc = "send" => job.msg.id \notin dados.partidas_notificadas

\* A later cycle fetched a game already notified and skipped it.
C1_Witness ==
  /\ ciclos = 2
  /\ enviadas["g1"] = 1
  /\ ultimo = "repeated"

\* C2: a game id enters partidas_notificadas exactly in the step in which
\* the job's send_message for that id returns successfully, the file being
\* written in the same step; when the send raises, the set and the file stay
\* as they were.
C2_MarcaSoAposEnvio ==
  [][/\ dados'.partidas_notificadas # dados.partidas_notificadas =>
          /\ job.pc = "send" /\ JobStep
          /\ job.msg.id \notin dados.partidas_notificadas
          /\ dados'.partidas_notificadas = dados.partidas_notificadas \cup {job.msg.id}
          /\ enviadas' = [enviadas EXCEPT ![job.msg.id] = @ + 1]
          /\ arquivo' \in salvar_dados(dados')
     /\ (job.pc = "send" /\ JobStep) =>
          \/ /\ enviadas' = [enviadas EXCEPT ![job.msg.id] = @ + 1]
             /\ job.msg.id \in dados'.partidas_notificadas
             /\ job.msg.id \in Range(arquivo'.partidas_notificadas)
          \/ /\ enviadas' = enviadas
             /\ dados' = dados
             /\ arquivo' = arquivo
             /\ ultimo' \in {None, "except"}]_vars

\* The send for g1 returned and g1 is recorded in memory and in the file.
C2_Witness ==
  /\ enviadas["g1"] = 1
  /\ ultimo = "sent"
  /\ "g1" \in dados.partidas_notificadas
  /\ arquivo.partidas_notificadas = <<"g1">>

\* A 200 response whose game object carries the fields the job reads (id,
\* an opponent object, a speed that is a string when given,
\* players.white.user.name).
WellFormed(r) ==
  /\ r.kind = "200"
  /\ r.partida.id \in GameIds
  /\ r.partida.opponent = Dict
  /\ r.partida.speed # None
  /\ r.partida.white # Absent

\* The 200 responses that carry an id, an opponent object and a speed that
\* is a string or absent.
GameResponses == {[kind |-> "200", partida |-> p] : p \in GamePayloads}

\* The lower-cased speed label of a game object ("" when it has none).
SpeedLabel(p) == lower(IF p.speed = Absent THEN "" ELSE p.speed)

\* C3: in the job, a well-formed game whose id is not in
\* partidas_notificadas is handed to send_message if and only if
\* ritmos_permitidos is empty or holds the game's lower-cased speed; a game
\* suppressed for its speed is not sent and not recorded.
C3_FiltroDeRitmo ==
  [][(job.pc = "get" /\ JobStep) =>
       \A r \in GameResponses :
         (/\ WellFormed(r)
          /\ r.partida.id \notin dados.partidas_notificadas
          /\ verificar_partidas_get(r)) =>
           /\ (job'.pc = "send" /\ job'.msg.id = r.partida.id) <=>
                (\/ dados.ritmos_permitidos = <<>>
                 \/ SpeedLabel(r.partida) \in Range(dados.ritmos_permitidos))
           /\ job'.pc # "send" => (dados' = dados /\ arquivo' = arquivo /\ enviadas' = enviadas)
           /\ job'.pc = "send" => job'.msg.ritmo = SpeedLabel(r.partida)]_vars

\* With a filter set, a game of an allowed speed (typed "Blitz" by the
\* server) is being sent.
C3_Witness ==
  /\ job.pc = "send"
  /\ dados.ritmos_permitidos = <<"blitz">>
  /\ job.msg.ritmo = "blitz"

\* C4: a cycle that fires while chat_id is unset does nothing: no player is
\* fetched, no message is sent, memory and file are unchanged.
C4_SemChatNaoFazNada ==
  [][(ciclos' # ciclos /\ dados.chat_id = None) =>
       /\ job' = JobIdle
       /\ consultados' = <<>>
       /\ dados' = dados
       /\ arquivo' = arquivo
       /\ enviadas' = enviadas]_vars

\* A cycle has fired before any chat was registered.
C4_Witness ==
  /\ ciclos >= 1
  /\ dados.chat_id = None
  /\ job.pc = "idle"
  /\ comandos = 0

\* C5: with the chat set and no command handled during the cycle, the
\* players fetched so far are the first job.it players of the list, in order,
\* whatever failed for the earlier ones; the cycle returns only when every
\* player of the list has been fetched, and every step of it moves on to the
\* send of the current player, to the next player or to its return.
C5_FalhaNaoInterrompe ==
  /\ [](job.pc # "idle" /\ ~interferido =>
          /\ job.it \in 1..Len(dados.gms_a_monitorar)
          /\ consultados = SubSeq(dados.gms_a_monitorar, 1, job.it)
          /\ job.gm_username = dados.gms_a_monitorar[job.it])
  /\ [][(JobStep /\ ~interferido /\ job'.pc = "idle" /\ dados.chat_id # None) =>
          consultados' = dados'.gms_a_monitorar]_vars
  /\ [][(JobStep /\ job.pc # "idle" /\ job.it < Len(dados.gms_a_monitorar)) =>
          job'.pc \in {"get", "send"}]_vars
  /\ [][(JobStep /\ job.pc # "idle") =>
          \/ job'.pc = "idle"
          \/ job'.it = job.it + 1 /\ job'.pc = "get"
          \/ job'.it = job.it /\ job.pc = "get" /\ job'.pc = "send"]_vars

\* After an exception for the first player, the second is being fetched.
C5_Witness ==
  /\ job.pc = "get"
  /\ job.it = 2
  /\ ultimo = "except"
  /\ ~interferido

\* A step of the /verificar handler (no other action changes its frame).
ManualStep == cmd' # cmd

\* C6: /verificar neither reads nor writes partidas_notificadas: every step
\* of it leaves memory, file and the job's send counts as they were, and it
\* hands to send_message every game that carries an id, an opponent object
\* and a speed that is a string or absent,
\* also one whose id is already in partidas_notificadas.
C6_ManualIgnoraNotificadas ==
  [][ManualStep =>
       /\ dados' = dados
       /\ arquivo' = arquivo
       /\ enviadas' = enviadas
       /\ job' = job
       /\ cmd.pc = "get" =>
            \A r \in GameResponses :
              (\E keep_alive \in BOOLEAN : verificar_agora_get(r, keep_alive)) =>
                (cmd'.pc = "send" /\ cmd'.msg.id = r.partida.id)]_vars

\* /verificar is sending a message for a game the job has already notified.
C6_Witness ==
  /\ cmd.pc = "send"
  /\ cmd.msg.id \in dados.partidas_notificadas
  /\ enviadas[cmd.msg.id] = 1

\* Whether the job would hand response r for player gm to send_message under
\* the current configuration with an empty partidas_notificadas.
JobWouldSend(r, gm) ==
  verificar_partidas_corpo(r, gm, [dados EXCEPT !.partidas_notificadas = {}]).acao = "send"

\* C7 (as claimed): for the same configuration and response, /verificar
\* sends a message exactly when the job would with an empty
\* partidas_notificadas, so a game excluded by ritmos_permitidos is not
\* reported.  Stated for the responses whose game object names the white
\* player, as the endpoint's contract has it.
C7_ManualIgualAoJob ==
  [][(cmd.pc = "get" /\ ManualStep) =>
       \A r \in Responses :
         (/\ r.kind = "200" => r.partida.white # Absent
          /\ \E keep_alive \in BOOLEAN : verificar_agora_get(r, keep_alive)) =>
           (cmd'.pc = "send" <=> JobWouldSend(r, cmd.gm_username))]_vars

\* C7 (amended): /verificar applies neither the dedup set nor the speed
\* filter and does not read players.white: it sends a message for exactly
\* the 200 responses that carry an id, an opponent that is an object and a
\* speed that is a string or absent.  That is every game
\* the job would send with an empty partidas_notificadas, and the same games
\* when ritmos_permitidos is empty and the game object names the white
\* player; a game excluded by ritmos_permitidos is still reported.
C7_ManualSemFiltro ==
  [][(cmd.pc = "get" /\ ManualStep) =>
       \A r \in Responses :
         (\E keep_alive \in BOOLEAN : verificar_agora_get(r, keep_alive)) =>
           /\ cmd'.pc = "send" <=>
                ( /\ r.kind = "200" /\ r.partida.id \in GameIds
                  /\ r.partida.opponent = Dict /\ r.partida.speed # None )
           /\ JobWouldSend(r, cmd.gm_username) => cmd'.pc = "send"
           /\ (dados.ritmos_permitidos = <<>> /\ r.partida.white # Absent) =>
                (cmd'.pc = "send" <=> JobWouldSend(r, cmd.gm_username))]_vars

\* /verificar is sending a message for a bullet game while the filter
\* allows blitz only.
C7_Witness ==
  /\ cmd.pc = "send"
  /\ dados.ritmos_permitidos = <<"blitz">>
  /\ cmd.msg.ritmo = "Bullet"

\* C8 (as claimed): when /verificar has gone through the list, it has
\* replied that nobody is playing exactly when no player had an active game
\* (a 200 response with an id and an opponent), and when it has not given
\* that reply a game message was handed to send_message.
C8_RespostaNinguem ==
  manual.fim =>
    /\ manual.ninguem <=> ~manual.ativo
    /\ ~manual.ninguem => manual.tentou

\* C9: gms_a_monitorar holds every identifier at most once, compared
\* case-insensitively, and only lower-case entries; /adicionargm of an
\* identifier already in the list, in any case, changes neither the list nor
\* the file.
C9_ListaSemRepeticao ==
  /\ [](LET gms == dados.gms_a_monitorar IN
          /\ \A i, k \in 1..Len(gms) : i # k => lower(gms[i]) # lower(gms[k])
          /\ \A i \in 1..Len(gms) : lower(gms[i]) = gms[i])
  /\ [][comandos' # comandos =>
          \A args \in PlayerArgLists :
            (/\ args # <<>>
             /\ \E i \in 1..Len(dados.gms_a_monitorar) :
                  lower(dados.gms_a_monitorar[i]) = lower(args[1])
             /\ adicionar_gm(args)) => (dados' = dados /\ arquivo' = arquivo)]_vars

\* "BOB" was added as bob, and a second /adicionargm of it was refused.
C9_Witness ==
  /\ dados.gms_a_monitorar = <<"magnuscarlsen", "hikaru", "bob">>
  /\ resposta = "ja esta na lista"
  /\ comandos = 2

\* C10: ritmos_permitidos holds only values of {bullet, blitz, rapid,
\* classical}, whatever /filtroritmo was given.
C10_RitmosValidos ==
  Range(dados.ritmos_permitidos) \subseteq {"bullet", "blitz", "rapid", "classical"}

\* /filtroritmo bullet Blitz has set the filter.
C10_Witness ==
  /\ dados.ritmos_permitidos = <<"bullet", "blitz">>
  /\ resposta = "filtro atualizado"

\* ---------------------------------------------------------------- C11
\* The speeds a /filtroritmo argument list names, whatever the case they
\* are typed in.
RitmosPedidos(args) ==
  {lower(args[i]) : i \in 1..Len(args)} \cap {"bullet", "blitz", "rapid", "classical"}

\* The argument lists that set the filter: not empty, and the first word is
\* neither the view keyword nor the clear keyword.
DefineFiltro(args) == args # <<>> /\ lower(args[1]) \notin {"ver", "todos"}

\* C11: /filtroritmo with speeds replaces the filter by exactly the valid
\* speeds among its arguments, compared in lower case, leaves the other
\* fields alone and writes the file; when no argument is a valid speed the
\* data and the file stay as they were and the reply says so.
C11_FiltroSubstituido ==
  [][comandos' # comandos =>
       \A args \in FilterArgLists :
         (DefineFiltro(args) /\ filtro_ritmo(args)) =>
           IF RitmosPedidos(args) # {}
             THEN /\ Range(dados'.ritmos_permitidos) = RitmosPedidos(args)
                  /\ dados' = [dados EXCEPT !.ritmos_permitidos = dados'.ritmos_permitidos]
                  /\ carregar_dados(arquivo') = dados'
                  /\ resposta' = "filtro atualizado"
             ELSE /\ dados' = dados
                  /\ arquivo' = arquivo
                  /\ resposta' = "nenhum ritmo valido"]_vars

\* A filter [blitz] read from the file was replaced by [bullet].
C11_Witness ==
  /\ comandos = 1
  /\ resposta = "filtro atualizado"
  /\ dados.ritmos_permitidos = <<"bullet">>
  /\ arquivo.ritmos_permitidos = <<"bullet">>

\* ---------------------------------------------------------------- C12
\* C12: a command with a missing or invalid argument (/removergm of a
\* player not in the list, /filtroritmo with no valid speed, /addgm,
\* /removergm or /filtroritmo with no argument) answers with a message and
\* leaves the data and the file exactly as they were.
C12_ArgumentoInvalido ==
  [][comandos' # comandos =>
       /\ \A args \in PlayerArgLists :
            /\ (args = <<>> /\ adicionar_gm(args)) =>
                  (resposta' = "uso" /\ dados' = dados /\ arquivo' = arquivo)
            /\ (args = <<>> /\ remover_gm(args)) =>
                  (resposta' = "uso" /\ dados' = dados /\ arquivo' = arquivo)
            /\ ( /\ args # <<>>
                 /\ lower(args[1]) \notin Range(dados.gms_a_monitorar)
                 /\ remover_gm(args) ) =>
                  (resposta' = "nao encontrei" /\ dados' = dados /\ arquivo' = arquivo)
       /\ \A args \in FilterArgLists :
            /\ (args = <<>> /\ filtro_ritmo(args)) =>
                  (resposta' = "uso" /\ dados' = dados /\ arquivo' = arquivo)
            /\ (DefineFiltro(args) /\ RitmosPedidos(args) = {} /\ filtro_ritmo(args)) =>
                  ( /\ resposta' = "nenhum ritmo valido"
                    /\ dados' = dados /\ arquivo' = arquivo )]_vars

\* /removergm named a player that is not in the list, with two games
\* already recorded (a rewrite of the file could have reordered them).
C12_Witness ==
  /\ resposta = "nao encontrei"
  /\ dados.partidas_notificadas = GameIds

\* ---------------------------------------------------------------- C13
\* C13: whenever a coroutine is suspended or idle, the file holds the data
\* in memory: every mutation is written out in the step that makes it.
C13_ArquivoIgualMemoria == carregar_dados(arquivo) = dados

\* A command changed the list while a cycle was suspended, and the cycle
\* then recorded a game: both changes are in the file.
C13_Witness ==
  /\ interferido
  /\ job.pc # "idle"
  /\ Len(dados.gms_a_monitorar) = 3
  /\ dados.partidas_notificadas # {}
  /\ Len(arquivo.gms_a_monitorar) = 3
  /\ arquivo.partidas_notificadas # <<>>

\* ---------------------------------------------------------------- C14
\* C14: reading back any file salvar_dados can write gives the same data:
\* the recorded ids as a set, the players in the same order, the same
\* filter and the same chat id, unset included; what salvar_dados writes is
\* a list holding each recorded id once.
C14_SalvarCarregar ==
  \A f \in salvar_dados(dados) :
    /\ carregar_dados(f) = dados
    /\ f.gms_a_monitorar = dados.gms_a_monitorar
    /\ f.ritmos_permitidos = dados.ritmos_permitidos
    /\ f.chat_id = dados.chat_id
    /\ Len(f.partidas_notificadas) = Cardinality(dados.partidas_notificadas)
    /\ Range(f.partidas_notificadas) = dados.partidas_notificadas

\* Two recorded ids, written in the order g2, g1, with a chat, a filter
\* and a list the commands changed.
C14_Witness ==
  /\ dados.partidas_notificadas = GameIds
  /\ arquivo.partidas_notificadas = <<"g2", "g1">>
  /\ dados.chat_id # None
  /\ dados.ritmos_permitidos # <<>>

\* ---------------------------------------------------------------- C15
\* C15: no step takes an id out of partidas_notificadas, recording an id
\* that is already there changes nothing, and the file lists no id twice.
C15_NotificadasSoCresce ==
  /\ [][dados.partidas_notificadas \subseteq dados'.partidas_notificadas]_vars
  /\ [](\A g \in dados.partidas_notificadas :
          marcar_notificada(dados.partidas_notificadas, g) = dados.partidas_notificadas)
  /\ [](\A i, k \in DOMAIN arquivo.partidas_notificadas :
          arquivo.partidas_notificadas[i] = arquivo.partidas_notificadas[k] => i = k)

\* A second id was recorded after the first, and commands ran as well.
C15_Witness ==
  /\ dados.partidas_notificadas = GameIds
  /\ enviadas["g1"] = 1 /\ enviadas["g2"] = 1
  /\ comandos = MaxCmds

\* ---------------------------------------------------------------- C16
\* C16: in the job, every 200 response that carries an id and an opponent
\* (here an opponent object, with a speed that is a string or absent),
\* passes the speed filter and is not recorded yet is handed to
\* send_message, with the colour Brancas exactly when the white player's
\* name, lower-cased, is the player queried, and Negras in every other case,
\* the case of a response that does not name the white player included.
C16_CorDaNotificacao ==
  [][(job.pc = "get" /\ JobStep) =>
       \A r \in GameResponses :
         (/\ r.partida.id \notin dados.partidas_notificadas
          /\ \/ dados.ritmos_permitidos = <<>>
             \/ SpeedLabel(r.partida) \in Range(dados.ritmos_permitidos)
          /\ verificar_partidas_get(r)) =>
           /\ job'.pc = "send"
           /\ job'.msg.id = r.partida.id
           /\ job'.msg.cor = IF r.partida.white # Absent
                                  /\ lower(r.partida.white) = job.gm_username
                               THEN "Brancas" ELSE "Negras"]_vars

\* ---------------------------------------------------------------- C17
\* How many times the cycle fetched player p.
VezesConsultado(fetched, p) == Cardinality({i \in DOMAIN fetched : fetched[i] = p})

\* C17: a cycle during which /adicionargm or /removergm changed the list
\* still fetches exactly once every player that was in the list from the
\* start of the cycle to its end.  Stated for the cycles whose suspension
\* saw the only command handled so far, one that added or removed a player:
\* the list the cycle started with is then the one the bot started with, and
\* the players that stayed are those of that list still in it.
C17_NinguemPuladoNemRepetido ==
  [][( /\ JobStep /\ job.pc # "idle" /\ job'.pc = "idle"
       /\ interferido /\ comandos = 1
       /\ resposta \in {"adicionado", "removido"} ) =>
       \A p \in Range(dados_padrao.gms_a_monitorar) \cap Range(dados.gms_a_monitorar) :
         VezesConsultado(consultados', p) = 1]_vars

\* ---------------------------------------------------------------- C19
\* C19 (as claimed): a message the job or /verificar hands to send_message
\* is addressed to the chat id registered at the moment it is handed over,
\* also when /start came from another chat while the coroutine was suspended
\* before that.
C19_DestinoAtual ==
  /\ [][(JobStep /\ job.pc = "get" /\ job'.pc = "send") =>
         job'.destino = dados'.chat_id]_vars
  /\ [][(ManualStep /\ cmd.pc = "get" /\ cmd'.pc = "send") =>
         cmd'.destino = dados'.chat_id]_vars

\* C19 (amended): a message the job or /verificar hands to send_message is
\* addressed to the chat id that was registered when that cycle or check
\* read it, at its start; a /start handled while the coroutine is suspended
\* changes the address of later cycles and checks only.
C19_DestinoDoInicio ==
  /\ [](job.pc = "send" => (job.destino = chat_inicio.job /\ job.destino \in ChatIds))
  /\ [](cmd.pc = "send" => (cmd.destino = chat_inicio.cmd /\ cmd.destino \in ChatIds))
  /\ [][(JobStep /\ job.pc = "idle" /\ job'.pc # "idle") =>
         chat_inicio'.job = dados.chat_id]_vars
  /\ [][(ManualStep /\ cmd.pc = "reply" /\ cmd'.pc # "idle") =>
         chat_inicio'.cmd = dados.chat_id]_vars

\* /start came from another chat while the cycle was suspended at its fetch:
\* when the message was handed to send_message chat202 was registered, and
\* the cycle is sending to chat101, which it read at its start.
C19_Witness ==
  /\ job.pc = "send"
  /\ job.destino = "chat101"
  /\ chat_inicio.job = "chat101"
  /\ chat_inicio.envio = "chat202"

\* ---------------------------------------------------------------- C18
\* C18: with a chat registered, a fair repeating timer and hikaru, who stays
\* in the list while other players are added and removed, returning the same well-formed game that passes the filter:
\* a failed send leaves the id unrecorded, every later successful fetch of
\* the unrecorded game hands it to send_message again, a successful send
\* records it, and the game is eventually notified and recorded.
C18_NotificadaPorFim ==
  /\ [][(JobStep /\ job.pc = "send" /\ job.msg.id = "g1" /\ enviadas' = enviadas) =>
         ("g1" \notin dados'.partidas_notificadas /\ arquivo' = arquivo)]_vars
  /\ [][(JobStep /\ "g1" \notin dados.partidas_notificadas /\ busca_com_sucesso) =>
         (job'.pc = "send" /\ job'.msg.id = "g1")]_vars
  /\ [][(JobStep /\ envio_com_sucesso) =>
         ( /\ enviadas'["g1"] = enviadas["g1"] + 1
           /\ "g1" \in dados'.partidas_notificadas
           /\ "g1" \in Range(arquivo'.partidas_notificadas) )]_vars
  /\ <>(enviadas["g1"] = 1 /\ "g1" \in dados.partidas_notificadas)

\* The first cycle did not get the game through (its fetch or its send
\* failed), and the second cycle is sending it again.
C18_Witness ==
  /\ ciclos = 2
  /\ job.pc = "send"
  /\ job.gm_username = "hikaru"
  /\ job.msg.id = "g1"
  /\ enviadas["g1"] = 0
  /\ "g1" \notin dados.partidas_notificadas

====
